---- MODULE Spec2Model ----
(***************************************************************************)
(* Model of createN8nProxyAgent (packages/@n8n/http-agent/src/proxyAgent.ts)*)
(*                                                                         *)
(* One call of the function is a run of the state machine: the inputs      *)
(* (targetUrl, options, explicitProxyConfig, process.env) are fixed by     *)
(* Init, and the actions are the consecutive blocks of the function body.  *)
(* JavaScript strings are sequences of one-character strings, so that      *)
(* startsWith, endsWith, split, trim, toLowerCase, template literals and   *)
(* URL parsing are computed, not assumed.                                  *)
(***************************************************************************)
EXTENDS Integers, Sequences, FiniteSets, TLC

(***************************************************************************)
(* Bounds of the generated inputs.                                         *)
(***************************************************************************)
MaxHostLen == 3
MaxNoProxyLen == 3

(***************************************************************************)
(* String literals of the source and of the inputs.                        *)
(***************************************************************************)
s_http == <<"h", "t", "t", "p">>
s_https == <<"h", "t", "t", "p", "s">>
s_undefined == <<"u", "n", "d", "e", "f", "i", "n", "e", "d">>
s_colon == <<":">>
s_at == <<"@">>
s_dot == <<".">>
s_sep == <<":", "/", "/">>
s_https_colon == <<"h", "t", "t", "p", "s", ":">>
s_http_colon == <<"h", "t", "t", "p", ":">>
s_ftp == <<"f", "t", "p">>
s_ws == <<"w", "s">>
s_wss == <<"w", "s", "s">>
s_slashes == <<"/", "/">>
UpperChars == <<"A", "B", "C", "D", "E", "F", "G", "H", "I", "J", "K", "L", "M", "N", "O", "P", "Q", "R", "S", "T", "U", "V", "W", "X", "Y", "Z">>
LowerChars == <<"a", "b", "c", "d", "e", "f", "g", "h", "i", "j", "k", "l", "m", "n", "o", "p", "q", "r", "s", "t", "u", "v", "w", "x", "y", "z">>
DigitChars == <<"0", "1", "2", "3", "4", "5", "6", "7", "8", "9">>

(***************************************************************************)
(* JavaScript values.  An optional value is a record: def says whether it  *)
(* is defined, v is the value (a string, a number or a boolean).           *)
(***************************************************************************)
Undefined == [def |-> FALSE, v |-> <<>>]
Str(s) == [def |-> TRUE, v |-> s]
UndefinedNum == [def |-> FALSE, v |-> 0]
Num(n) == [def |-> TRUE, v |-> n]
UndefinedBool == [def |-> FALSE, v |-> FALSE]
Bool(b) == [def |-> TRUE, v |-> b]

\* truthiness of string | undefined: undefined and '' are falsy
Truthy(x) == x.def /\ x.v # <<>>
\* truthiness of number | undefined: undefined and 0 are falsy
TruthyNum(x) == x.def /\ x.v # 0
\* truthiness of boolean | undefined
TruthyBool(x) == x.def /\ x.v
\* a ?? b: only undefined gives way to b
Or_Nullish(a, b) == IF a.def THEN a ELSE b
\* a || b on string | undefined
Or(a, b) == IF Truthy(a) THEN a ELSE b

(***************************************************************************)
(* String.prototype methods used by the function.                          *)
(***************************************************************************)
IsUpper(c) == \E i \in 1..Len(UpperChars) : UpperChars[i] = c
IsLower(c) == \E i \in 1..Len(LowerChars) : LowerChars[i] = c
IsDigit(c) == \E i \in 1..Len(DigitChars) : DigitChars[i] = c
LowerChar(c) ==
  IF IsUpper(c)
    THEN LowerChars[CHOOSE i \in 1..Len(UpperChars) : UpperChars[i] = c]
    ELSE c

RECURSIVE toLowerCase(_)
toLowerCase(s) ==
  IF s = <<>> THEN <<>> ELSE <<LowerChar(Head(s))>> \o toLowerCase(Tail(s))

startsWith(s, p) == Len(p) <= Len(s) /\ SubSeq(s, 1, Len(p)) = p
endsWith(s, p) == Len(p) <= Len(s) /\ SubSeq(s, Len(s) - Len(p) + 1, Len(s)) = p

WhiteSpace == {" ", "\t"}
RECURSIVE trimStart(_)
trimStart(s) ==
  IF s # <<>> /\ Head(s) \in WhiteSpace THEN trimStart(Tail(s)) ELSE s
RECURSIVE trimEnd(_)
trimEnd(s) ==
  IF s # <<>> /\ s[Len(s)] \in WhiteSpace
    THEN trimEnd(SubSeq(s, 1, Len(s) - 1))
    ELSE s
trim(s) == trimEnd(trimStart(s))

\* index of the first character of s that lies in cs, 0 when there is none
IndexOfAny(s, cs) ==
  IF \E i \in 1..Len(s) : s[i] \in cs
    THEN CHOOSE i \in 1..Len(s) : s[i] \in cs /\ \A j \in 1..(i - 1) : s[j] \notin cs
    ELSE 0
\* index of the last occurrence of c in s, 0 when there is none
LastIndexOf(s, c) ==
  IF \E i \in 1..Len(s) : s[i] = c
    THEN CHOOSE i \in 1..Len(s) : s[i] = c /\ \A j \in (i + 1)..Len(s) : s[j] # c
    ELSE 0

\* s.split(c) for a one-character separator
RECURSIVE split(_, _)
split(s, c) ==
  LET i == IndexOfAny(s, {c})
  IN  IF i = 0
        THEN <<s>>
        ELSE <<SubSeq(s, 1, i - 1)>> \o split(SubSeq(s, i + 1, Len(s)), c)

\* decimal digits of a number, as a template literal prints it
RECURSIVE NumberToString(_)
NumberToString(n) ==
  IF n < 10
    THEN <<DigitChars[n + 1]>>
    ELSE NumberToString(n \div 10) \o <<DigitChars[(n % 10) + 1]>>

\* `${x}` for x: string | undefined
TemplateStr(x) == IF x.def THEN x.v ELSE s_undefined
\* `${x}` for x: number | undefined
TemplateNum(x) == IF x.def THEN NumberToString(x.v) ELSE s_undefined

(***************************************************************************)
(* new URL(input): the WHATWG URL parser without a base URL, for inputs    *)
(* made of letters, digits, space and the characters . : / @ ? # \ + -     *)
(* The result has ok = FALSE where the constructor throws TypeError.       *)
(***************************************************************************)
SpecialSchemes == {s_http, s_https, s_ftp, s_ws, s_wss}
SchemeChars == {"+", "-", "."}
ForbiddenHostChars == {" ", "\t", "#", "/", ":", "<", ">", "?", "@", "[", "\\", "]", "^", "|"}
InvalidURL == [ok |-> FALSE, protocol |-> <<>>, hostname |-> <<>>]

\* leading and trailing C0 control or space is removed first
RECURSIVE StripLeft(_)
StripLeft(s) == IF s # <<>> /\ Head(s) \in {" ", "\t"} THEN StripLeft(Tail(s)) ELSE s
RECURSIVE StripRight(_)
StripRight(s) ==
  IF s # <<>> /\ s[Len(s)] \in {" ", "\t"}
    THEN StripRight(SubSeq(s, 1, Len(s) - 1))
    ELSE s

IsAlpha(c) == IsUpper(c) \/ IsLower(c)
ValidScheme(sch) ==
  /\ sch # <<>>
  /\ IsAlpha(sch[1])
  /\ \A i \in 1..Len(sch) : IsAlpha(sch[i]) \/ IsDigit(sch[i]) \/ sch[i] \in SchemeChars

RECURSIVE SkipSlashes(_)
SkipSlashes(s) ==
  IF s # <<>> /\ Head(s) \in {"/", "\\"} THEN SkipSlashes(Tail(s)) ELSE s

\* the authority ends at the first of the given terminators
UpTo(s, cs) ==
  LET i == IndexOfAny(s, cs) IN IF i = 0 THEN s ELSE SubSeq(s, 1, i - 1)

ValidPort(p) == \A i \in 1..Len(p) : IsDigit(p[i])

\* host and port of an authority: credentials end at the last "@", the
\* port starts at the first ":" after them
ParseAuthority(auth, special) ==
  LET at       == LastIndexOf(auth, "@")
      hostport == SubSeq(auth, at + 1, Len(auth))
      colon    == IndexOfAny(hostport, {":"})
      host     == IF colon = 0 THEN hostport ELSE SubSeq(hostport, 1, colon - 1)
      port     == IF colon = 0 THEN <<>> ELSE SubSeq(hostport, colon + 1, Len(hostport))
      hostOk   == \A i \in 1..Len(host) : host[i] \notin ForbiddenHostChars
  IN  IF \/ ~hostOk
         \/ ~ValidPort(port)
         \/ (host = <<>> /\ (special \/ at # 0 \/ colon # 0))
        THEN [ok |-> FALSE, hostname |-> <<>>]
        ELSE [ok |-> TRUE, hostname |-> IF special THEN toLowerCase(host) ELSE host]

ParseURL(input) ==
  LET s      == StripRight(StripLeft(input))
      i      == IndexOfAny(s, {":"})
      scheme == SubSeq(s, 1, i - 1)
      rest   == SubSeq(s, i + 1, Len(s))
      lower  == toLowerCase(scheme)
  IN  IF i = 0 \/ ~ValidScheme(scheme)
        THEN InvalidURL
        ELSE IF lower \in SpecialSchemes
          THEN LET a == ParseAuthority(UpTo(SkipSlashes(rest), {"/", "\\", "?", "#"}), TRUE)
               IN  IF a.ok
                     THEN [ok |-> TRUE, protocol |-> lower \o s_colon, hostname |-> a.hostname]
                     ELSE InvalidURL
          ELSE IF startsWith(rest, s_slashes)
            THEN LET a == ParseAuthority(UpTo(SubSeq(rest, 3, Len(rest)), {"/", "?", "#"}), FALSE)
                 IN  IF a.ok
                       THEN [ok |-> TRUE, protocol |-> lower \o s_colon, hostname |-> a.hostname]
                       ELSE InvalidURL
            ELSE [ok |-> TRUE, protocol |-> lower \o s_colon, hostname |-> <<>>]

(***************************************************************************)
(* Inputs of one call.                                                     *)
(***************************************************************************)
ProxyExplicit == <<"h", "t", "t", "p", ":", "/", "/", "p", "0">>
ProxyHTTP == <<"h", "t", "t", "p", ":", "/", "/", "p", "1">>
ProxyHttpLc == <<"h", "t", "t", "p", ":", "/", "/", "p", "2">>
ProxyHTTPS == <<"h", "t", "t", "p", ":", "/", "/", "p", "3">>
ProxyHttpsLc == <<"h", "t", "t", "p", ":", "/", "/", "p", "4">>
HostProxyLocal == <<"p", "r", "o", "x", "y", ".", "l", "o", "c", "a", "l">>
UserU == <<"u">>
PassP == <<"p">>
SniName == <<"s", "n", "i", ".", "b">>
ProxyPort == 8080

\* well-formed target URLs
T1 == <<"h", "t", "t", "p", ":", "/", "/", "b">>
T2 == <<"h", "t", "t", "p", "s", ":", "/", "/", "a", ".", "b">>
T3 == <<"H", "T", "T", "P", "S", ":", "/", "/", "b">>
T4 == <<"f", "t", "p", ":", "/", "/", "b">>
T5 == <<" ", "h", "t", "t", "p", "s", ":", "/", "/", "b">>
T6 == <<"x", ":", "/", "/", "B">>
T7 == <<"h", "t", "t", "p", "s", ":", "b">>
T8 == <<"h", "t", "t", "p", ":", "/", "/", "a", ".", "b", ".">>
\* malformed target URLs: empty, no scheme, no host, space in the host,
\* empty scheme, port that is not a number
M1 == <<>>
M2 == <<"b">>
M3 == <<"h", "t", "t", "p", ":", "/", "/">>
M4 == <<"h", "t", "t", "p", ":", "/", "/", "a", " ", "b">>
M5 == <<":", "/", "/", "b">>
M6 == <<"h", "t", "t", "p", "s", ":", "/", "/", "b", ":", "x">>
WellFormedTargets == {T1, T2, T3, T4, T5, T6, T7, T8}
MalformedTargets == {M1, M2, M3, M4, M5, M6}

SeqsUpTo(A, n) == UNION {[1..k -> A] : k \in 0..n}
HostAlphabet == {"a", "b", "."}
NoProxyAlphabet == {"b", "B", ".", ",", " "}
GeneratedHostnames == SeqsUpTo(HostAlphabet, MaxHostLen) \ {<<>>}
GeneratedNoProxy == SeqsUpTo(NoProxyAlphabet, MaxNoProxyLen)

\* N8nProxyAgentOptions
OptionsSet ==
  [skipSslCertificateValidation : {UndefinedBool, Bool(TRUE), Bool(FALSE)},
   servername : {Undefined, Str(<<>>), Str(SniName)}]
DefaultOptions ==
  [skipSslCertificateValidation |-> UndefinedBool, servername |-> Undefined]
SniOptions ==
  [skipSslCertificateValidation |-> Bool(TRUE), servername |-> Str(SniName)]

\* explicitProxyConfig?: string | ExplicitProxyObject
NoAuth == [def |-> FALSE, username |-> Undefined, password |-> Undefined]
AuthSet ==
  {NoAuth} \cup [def : {TRUE},
                 username : {Undefined, Str(<<>>), Str(UserU)},
                 password : {Undefined, Str(<<>>), Str(PassP)}]
NoExplicit ==
  [type |-> "undefined", str |-> <<>>, protocol |-> Undefined, host |-> Undefined,
   port |-> UndefinedNum, auth |-> NoAuth]
ExplicitString(s) == [NoExplicit EXCEPT !.type = "string", !.str = s]
ExplicitObject(pr, h, po, au) ==
  [type |-> "object", str |-> <<>>, protocol |-> pr, host |-> h, port |-> po, auth |-> au]
ObjectSet ==
  {ExplicitObject(pr, h, po, au) :
     pr \in {Undefined, Str(s_http), Str(s_https)},
     h \in {Undefined, Str(<<>>), Str(HostProxyLocal)},
     po \in {UndefinedNum, Num(0), Num(ProxyPort)},
     au \in AuthSet}
SmallExplicitSet ==
  {NoExplicit, ExplicitString(<<>>), ExplicitString(ProxyExplicit),
   ExplicitObject(Undefined, Str(HostProxyLocal), Num(ProxyPort), NoAuth),
   ExplicitObject(Undefined, Str(HostProxyLocal), UndefinedNum, NoAuth),
   ExplicitObject(Undefined, Undefined, Num(ProxyPort), NoAuth),
   ExplicitObject(Str(s_https), Str(HostProxyLocal), Num(0), NoAuth)}

\* process.env: the six variables the function reads
EmptyEnv ==
  [HTTP_PROXY |-> Undefined, http_proxy |-> Undefined,
   HTTPS_PROXY |-> Undefined, https_proxy |-> Undefined,
   NO_PROXY |-> Undefined, no_proxy |-> Undefined]
ProxyEnvSet ==
  {[EmptyEnv EXCEPT !.HTTP_PROXY = a, !.http_proxy = b, !.HTTPS_PROXY = c, !.https_proxy = d] :
     a \in {Undefined, Str(<<>>), Str(ProxyHTTP)},
     b \in {Undefined, Str(<<>>), Str(ProxyHttpLc)},
     c \in {Undefined, Str(<<>>), Str(ProxyHTTPS)},
     d \in {Undefined, Str(<<>>), Str(ProxyHttpsLc)}}
NoProxyPairs ==
  {<<Undefined, Undefined>>,
   <<Str(<<"b">>), Undefined>>,
   <<Undefined, Str(<<".", "B", ",">>)>>,
   <<Str(<<>>), Str(<<" ", "a", ".", "b">>)>>}
WithNoProxy(e, np) == [e EXCEPT !.NO_PROXY = np[1], !.no_proxy = np[2]]

(***************************************************************************)
(* The blocks of createN8nProxyAgent as operators.                         *)
(***************************************************************************)
\* if (explicitProxyConfig): '' and undefined are falsy, every object is truthy
ExplicitTruthy(cfg) ==
  \/ cfg.type = "object"
  \/ cfg.type = "string" /\ cfg.str # <<>>

\* the template literal of the auth segment
AuthSegment(cfg) ==
  IF cfg.auth.def
    THEN TemplateStr(cfg.auth.username) \o s_colon \o TemplateStr(cfg.auth.password) \o s_at
    ELSE <<>>

\* protocol of the proxy URL built from a descriptor
DescriptorProtocol(target, cfg) ==
  IF Truthy(cfg.protocol)
    THEN cfg.protocol.v
    ELSE IF startsWith(target, s_https_colon) THEN s_https ELSE s_http

\* the explicit branch: proxyStringOrUrl from explicitProxyConfig
ExplicitProxyUrl(target, cfg) ==
  IF cfg.type = "string"
    THEN Str(cfg.str)
    ELSE IF Truthy(cfg.host) /\ TruthyNum(cfg.port)
      THEN Str(DescriptorProtocol(target, cfg) \o s_sep \o AuthSegment(cfg)
               \o TemplateStr(cfg.host) \o s_colon \o TemplateNum(cfg.port))
      ELSE Undefined

httpsProxyEnv(e) == Or(e.HTTPS_PROXY, e.https_proxy)
httpProxyEnv(e) == Or(e.HTTP_PROXY, e.http_proxy)

\* https targets fall back to the HTTP proxy value as well
EnvProxyUrl_HttpsFallsBack(protocolFromTarget, e) ==
  IF protocolFromTarget = s_https_colon
    THEN Or(httpsProxyEnv(e), httpProxyEnv(e))
    ELSE IF protocolFromTarget = s_http_colon
      THEN Or(httpProxyEnv(e), httpsProxyEnv(e))
      ELSE Undefined
\* the environment branch: proxyStringOrUrl from process.env
EnvProxyUrl(protocolFromTarget, e) ==
  IF protocolFromTarget = s_https_colon
    THEN httpsProxyEnv(e)
    ELSE IF protocolFromTarget = s_http_colon
      THEN Or(httpProxyEnv(e), httpsProxyEnv(e))
      ELSE Undefined

\* the suffix test without the separating dot
DomainMatches_NoDot(domain, host) ==
  LET lowerHostname == toLowerCase(host)
  IN  IF startsWith(domain, s_dot)
        THEN endsWith(lowerHostname, domain)
        ELSE lowerHostname = domain \/ endsWith(lowerHostname, domain)
\* the callback of noProxyDomains.some
DomainMatches(domain, host) ==
  LET lowerHostname == toLowerCase(host)
  IN  IF startsWith(domain, s_dot)
        THEN endsWith(lowerHostname, domain)
        ELSE lowerHostname = domain \/ endsWith(lowerHostname, s_dot \o domain)

\* noProxy.split(',').map((d) => d.trim().toLowerCase())
noProxyDomains(noProxy) ==
  LET parts == split(noProxy, ",")
  IN  [i \in 1..Len(parts) |-> toLowerCase(trim(parts[i]))]

\* shouldUseProxy after the NO_PROXY block
NoProxyDecision(proxy, host, e) ==
  LET noProxy == Or(e.NO_PROXY, e.no_proxy)
  IN  IF ~Truthy(proxy)
        THEN FALSE
        ELSE IF ~Truthy(noProxy)
          THEN TRUE
          ELSE LET domains == noProxyDomains(noProxy.v)
               IN  ~(\E i \in 1..Len(domains) : DomainMatches(domains[i], host))

\* servername attached whenever it is given
CommonAgentSettings_AlwaysSni(opts, useProxy) ==
  [rejectUnauthorized |-> ~TruthyBool(opts.skipSslCertificateValidation),
   servername |-> IF Truthy(opts.servername) THEN opts.servername ELSE Undefined]
\* commonAgentSettings, with servername attached for direct connections
CommonAgentSettings(opts, useProxy) ==
  [rejectUnauthorized |-> ~TruthyBool(opts.skipSslCertificateValidation),
   servername |-> IF Truthy(opts.servername) /\ ~useProxy THEN opts.servername ELSE Undefined]

\* the agent constructed at the end; the constructors are opaque and keep
\* the arguments they are given
NoAgent ==
  [kind |-> "none", proxy |-> Undefined, rejectUnauthorized |-> FALSE, servername |-> Undefined]
MakeAgent_PlainDirect(useProxy, proxy, proto, settings) ==
  IF useProxy /\ Truthy(proxy)
    THEN [kind |-> "HttpsProxyAgent", proxy |-> proxy,
          rejectUnauthorized |-> settings.rejectUnauthorized,
          servername |-> settings.servername]
    ELSE [kind |-> "http.Agent",
          proxy |-> Undefined,
          rejectUnauthorized |-> settings.rejectUnauthorized,
          servername |-> settings.servername]
MakeAgent(useProxy, proxy, proto, settings) ==
  IF useProxy /\ Truthy(proxy)
    THEN [kind |-> "HttpsProxyAgent", proxy |-> proxy,
          rejectUnauthorized |-> settings.rejectUnauthorized,
          servername |-> settings.servername]
    ELSE [kind |-> IF proto = s_https_colon THEN "https.Agent" ELSE "http.Agent",
          proxy |-> Undefined,
          rejectUnauthorized |-> settings.rejectUnauthorized,
          servername |-> settings.servername]

\* the whole function on a well-formed target: lines 30-119 in one step
createN8nProxyAgent(t, o, cfg, e) ==
  LET u     == ParseURL(t)
      proxy == IF ExplicitTruthy(cfg)
                 THEN ExplicitProxyUrl(t, cfg)
                 ELSE EnvProxyUrl(u.protocol, e)
      use   == NoProxyDecision(proxy, u.hostname, e)
  IN  MakeAgent(use, proxy, u.protocol, CommonAgentSettings(o, use))

(***************************************************************************)
(* The state machine of one call.                                          *)
(***************************************************************************)
VARIABLES targetUrl, options, explicitProxyConfig, env,
          proxyStringOrUrl, protocol, hostname, shouldUseProxy, agent, pc, error

vars == <<targetUrl, options, explicitProxyConfig, env,
          proxyStringOrUrl, protocol, hostname, shouldUseProxy, agent, pc, error>>
inputs == <<targetUrl, options, explicitProxyConfig, env>>

\* calls that vary the proxy source: explicit configuration against environment
InitSources ==
  /\ targetUrl \in WellFormedTargets \cup MalformedTargets
  /\ options \in {DefaultOptions, SniOptions}
  /\ explicitProxyConfig \in SmallExplicitSet
  /\ \E e \in ProxyEnvSet, np \in NoProxyPairs : env = WithNoProxy(e, np)

\* calls that vary the structured descriptor
InitDescriptors ==
  /\ targetUrl \in WellFormedTargets \cup MalformedTargets
  /\ options = DefaultOptions
  /\ explicitProxyConfig \in ObjectSet
  /\ env \in {EmptyEnv, [EmptyEnv EXCEPT !.HTTP_PROXY = Str(ProxyHTTP), !.HTTPS_PROXY = Str(ProxyHTTPS)]}

\* calls that vary the NO_PROXY list and the target hostname
InitNoProxy ==
  /\ \E h \in GeneratedHostnames : targetUrl = s_http \o s_sep \o h
  /\ options = SniOptions
  /\ explicitProxyConfig \in {ExplicitString(ProxyExplicit)}
  /\ \E np \in GeneratedNoProxy : env = WithNoProxy(EmptyEnv, <<Str(np), Undefined>>)

\* calls that vary the agent options
InitOptions ==
  /\ targetUrl \in WellFormedTargets
  /\ options \in OptionsSet
  /\ explicitProxyConfig \in {NoExplicit, ExplicitString(ProxyExplicit)}
  /\ \E np \in NoProxyPairs :
       env \in {WithNoProxy(EmptyEnv, np),
                WithNoProxy([EmptyEnv EXCEPT !.HTTPS_PROXY = Str(ProxyHTTPS)], np)}

Init ==
  /\ InitSources \/ InitDescriptors \/ InitNoProxy \/ InitOptions
  /\ proxyStringOrUrl = Undefined
  /\ protocol = <<>>
  /\ hostname = <<>>
  /\ shouldUseProxy = FALSE
  /\ agent = NoAgent
  /\ pc = "select"
  /\ error = "none"

\* the environment is consulted before the explicit configuration
SelectProxySource_EnvFirst ==
  /\ pc = "select"
  /\ IF ParseURL(targetUrl).ok /\ Truthy(EnvProxyUrl(ParseURL(targetUrl).protocol, env))
       THEN /\ proxyStringOrUrl' = EnvProxyUrl(ParseURL(targetUrl).protocol, env)
            /\ pc' = "parse"
            /\ error' = error
       ELSE IF ExplicitTruthy(explicitProxyConfig)
         THEN /\ proxyStringOrUrl' = ExplicitProxyUrl(targetUrl, explicitProxyConfig)
              /\ pc' = "parse"
              /\ error' = error
         ELSE IF ParseURL(targetUrl).ok
           THEN /\ proxyStringOrUrl' = Undefined
                /\ pc' = "parse"
                /\ error' = error
           ELSE /\ proxyStringOrUrl' = proxyStringOrUrl
                /\ pc' = "threw"
                /\ error' = "TypeError: Invalid URL"
  /\ UNCHANGED <<inputs, protocol, hostname, shouldUseProxy, agent>>

\* lines 35-62: the candidate proxy; new URL(targetUrl) of the environment
\* branch throws on a malformed target
SelectProxySource ==
  /\ pc = "select"
  /\ IF ExplicitTruthy(explicitProxyConfig)
       THEN /\ proxyStringOrUrl' = ExplicitProxyUrl(targetUrl, explicitProxyConfig)
            /\ pc' = "parse"
            /\ error' = error
       ELSE IF ParseURL(targetUrl).ok
         THEN /\ proxyStringOrUrl' = EnvProxyUrl(ParseURL(targetUrl).protocol, env)
              /\ pc' = "parse"
              /\ error' = error
         ELSE /\ proxyStringOrUrl' = proxyStringOrUrl
              /\ pc' = "threw"
              /\ error' = "TypeError: Invalid URL"
  /\ UNCHANGED <<inputs, protocol, hostname, shouldUseProxy, agent>>

\* a parser that never throws, as the legacy url.parse
ParseTargetUrl_NoThrow ==
  /\ pc = "parse"
  /\ protocol' = ParseURL(targetUrl).protocol
  /\ hostname' = ParseURL(targetUrl).hostname
  /\ pc' = "noproxy"
  /\ error' = error
  /\ UNCHANGED <<inputs, proxyStringOrUrl, shouldUseProxy, agent>>

\* lines 64-66: new URL(targetUrl) throws on a malformed target
ParseTargetUrl ==
  /\ pc = "parse"
  /\ IF ParseURL(targetUrl).ok
       THEN /\ protocol' = ParseURL(targetUrl).protocol
            /\ hostname' = ParseURL(targetUrl).hostname
            /\ pc' = "noproxy"
            /\ error' = error
       ELSE /\ UNCHANGED <<protocol, hostname>>
            /\ pc' = "threw"
            /\ error' = "TypeError: Invalid URL"
  /\ UNCHANGED <<inputs, proxyStringOrUrl, shouldUseProxy, agent>>

\* lines 68-91: shouldUseProxy and the NO_PROXY check
CheckNoProxy ==
  /\ pc = "noproxy"
  /\ shouldUseProxy' = NoProxyDecision(proxyStringOrUrl, hostname, env)
  /\ pc' = "construct"
  /\ UNCHANGED <<inputs, proxyStringOrUrl, protocol, hostname, agent, error>>

\* lines 93-118: the settings and the agent that is returned
ConstructAgent ==
  /\ pc = "construct"
  /\ agent' = MakeAgent(shouldUseProxy, proxyStringOrUrl, protocol,
                        CommonAgentSettings(options, shouldUseProxy))
  /\ pc' = "done"
  /\ UNCHANGED <<inputs, proxyStringOrUrl, protocol, hostname, shouldUseProxy, error>>

Next == SelectProxySource \/ ParseTargetUrl \/ CheckNoProxy \/ ConstructAgent

Spec == Init /\ [][Next]_vars

TypeOK ==
  /\ pc \in {"select", "parse", "noproxy", "construct", "done", "threw"}
  /\ error \in {"none", "TypeError: Invalid URL"}
  /\ shouldUseProxy \in BOOLEAN
  /\ agent.kind \in {"none", "HttpsProxyAgent", "https.Agent", "http.Agent"}

(***************************************************************************)
(* Reference definitions of the properties: the rules as the design        *)
(* states them, written without the operators of the model above.          *)
(***************************************************************************)
Finished == pc = "done"
Selected == pc \in {"parse", "noproxy", "construct", "done"}
Decided == pc \in {"construct", "done"}

\* scheme of the target, from the way the target was written
HttpTargets == {T1, T8} \cup {s_http \o s_sep \o h : h \in GeneratedHostnames}
HttpsTargets == {T2, T3, T5, T7}
OtherSchemeTargets == {T4, T6}

NonEmpty(x) == x.def /\ Len(x.v) > 0
\* the first value of a list of variables that is set to a non-empty string
FirstNonEmpty(xs) ==
  IF \E i \in 1..Len(xs) : NonEmpty(xs[i])
    THEN xs[CHOOSE i \in 1..Len(xs) : NonEmpty(xs[i]) /\ \A j \in 1..(i - 1) : ~NonEmpty(xs[j])]
    ELSE Undefined

RefHttpsValue == FirstNonEmpty(<<env.HTTPS_PROXY, env.https_proxy>>)
RefHttpValue == FirstNonEmpty(<<env.HTTP_PROXY, env.http_proxy>>)
RefEnvCandidate ==
  IF targetUrl \in HttpsTargets
    THEN RefHttpsValue
    ELSE IF targetUrl \in HttpTargets
      THEN IF NonEmpty(RefHttpValue) THEN RefHttpValue ELSE RefHttpsValue
      ELSE Undefined

\* the entries of a comma-separated list: the maximal comma-free pieces,
\* without the surrounding whitespace, in lower case
RefBoundary(s, k) == k = 0 \/ k = Len(s) + 1 \/ s[k] = ","
RefSegments(s) ==
  {SubSeq(s, ij[1] + 1, ij[2] - 1) :
     ij \in {p \in (0..Len(s)) \X (1..(Len(s) + 1)) :
               /\ p[1] < p[2]
               /\ RefBoundary(s, p[1])
               /\ RefBoundary(s, p[2])
               /\ \A k \in (p[1] + 1)..(p[2] - 1) : s[k] # ","}}
RefMin(S) == CHOOSE x \in S : \A y \in S : x <= y
RefMax(S) == CHOOSE x \in S : \A y \in S : x >= y
RefTrim(x) ==
  LET idx == {k \in 1..Len(x) : x[k] \notin {" ", "\t"}}
  IN  IF idx = {} THEN <<>> ELSE SubSeq(x, RefMin(idx), RefMax(idx))
RefLower(x) == [k \in 1..Len(x) |-> LowerChar(x[k])]
RefEntries(s) == {RefLower(RefTrim(x)) : x \in RefSegments(s)}
RefEndsWith(h, e) == \E k \in 0..Len(h) : SubSeq(h, k + 1, Len(h)) = e
RefEntryMatches(e, h) ==
  IF Len(e) > 0 /\ e[1] = "."
    THEN RefEndsWith(h, e)
    ELSE h = e \/ RefEndsWith(h, <<".">> \o e)

\* the entries in force: NO_PROXY, or no_proxy when NO_PROXY is unset or empty
RefEffectiveEntries ==
  IF NonEmpty(env.NO_PROXY)
    THEN RefEntries(env.NO_PROXY.v)
    ELSE IF NonEmpty(env.no_proxy) THEN RefEntries(env.no_proxy.v) ELSE {}
RefExcluded == \E e \in RefEffectiveEntries : RefEntryMatches(e, RefLower(hostname))
RefExcludedByNonEmptyEntry ==
  \E e \in RefEffectiveEntries \ {<<>>} : RefEntryMatches(e, RefLower(hostname))

IsProxied == agent.kind = "HttpsProxyAgent"
IsDirect == agent.kind \in {"https.Agent", "http.Agent"}

(***************************************************************************)
(* Properties.                                                             *)
(***************************************************************************)
ValidExplicit ==
  \/ explicitProxyConfig.type = "string" /\ Len(explicitProxyConfig.str) > 0
  \/ /\ explicitProxyConfig.type = "object"
     /\ NonEmpty(explicitProxyConfig.host)
     /\ explicitProxyConfig.port.def /\ explicitProxyConfig.port.v > 0
NoExplicitGiven == explicitProxyConfig.type = "undefined"
EnvProxyValues == {env.HTTP_PROXY, env.http_proxy, env.HTTPS_PROXY, env.https_proxy}
ClearedEnv ==
  [env EXCEPT !.HTTP_PROXY = Undefined, !.http_proxy = Undefined,
              !.HTTPS_PROXY = Undefined, !.https_proxy = Undefined]
PortDigits == <<"8", "0", "8", "0">>

\* C1: with a valid explicit configuration (a non-empty string, or a
\* descriptor with host and port) the candidate is the one derived from that
\* configuration, useProxy is true exactly when no NO_PROXY entry matches the
\* target hostname, and the handle is the one the same call returns with all
\* four proxy variables unset.
C1_ExplicitConfigurationDecides ==
  (ValidExplicit /\ Selected) =>
    /\ NonEmpty(proxyStringOrUrl)
    /\ explicitProxyConfig.type = "string" =>
         proxyStringOrUrl = Str(explicitProxyConfig.str)
    /\ explicitProxyConfig.type = "object" =>
         RefEndsWith(proxyStringOrUrl.v,
                     explicitProxyConfig.host.v \o <<":">> \o PortDigits)
    /\ Decided => (shouldUseProxy <=> ~RefExcluded)
    /\ Finished =>
         /\ shouldUseProxy => IsProxied /\ agent.proxy = proxyStringOrUrl
         /\ ~shouldUseProxy => IsDirect
         /\ agent = createN8nProxyAgent(targetUrl, options, explicitProxyConfig, ClearedEnv)
C1_Witness ==
  /\ Finished
  /\ targetUrl = T1
  /\ explicitProxyConfig = ExplicitString(ProxyExplicit)
  /\ NonEmpty(env.HTTP_PROXY) /\ NonEmpty(env.HTTPS_PROXY)
  /\ IsProxied /\ agent.proxy = Str(ProxyExplicit)

\* C2: with no explicit configuration the candidate is taken from the
\* environment by the target's scheme: https gives the HTTPS proxy value only,
\* http gives the HTTP proxy value if set and the HTTPS proxy value otherwise,
\* any other scheme gives no candidate and a direct handle.
C2_EnvironmentCandidateByScheme ==
  (NoExplicitGiven /\ Selected) =>
    /\ Truthy(proxyStringOrUrl) <=> NonEmpty(RefEnvCandidate)
    /\ NonEmpty(RefEnvCandidate) => proxyStringOrUrl = RefEnvCandidate
    /\ (Finished /\ targetUrl \in HttpsTargets /\ ~NonEmpty(RefHttpsValue)) =>
         ~shouldUseProxy /\ IsDirect
    /\ (Finished /\ targetUrl \in OtherSchemeTargets) =>
         ~shouldUseProxy /\ IsDirect /\ ~Truthy(proxyStringOrUrl)
C2_Witness ==
  /\ Finished
  /\ NoExplicitGiven
  /\ targetUrl = T1
  /\ ~env.HTTP_PROXY.def /\ ~env.http_proxy.def
  /\ env.HTTPS_PROXY = Str(ProxyHTTPS)
  /\ IsProxied /\ agent.proxy = Str(ProxyHTTPS)

\* C3: the exclusion check is the reference rule on the trimmed, lower-cased
\* entries and the lower-cased hostname: an entry starting with "." matches
\* iff the hostname ends with it, any other entry matches iff the hostname
\* equals it or ends with "." followed by it; with a candidate, useProxy is
\* false iff some entry matches, and without a candidate it is false.
C3_ExclusionFollowsReferenceRule ==
  Decided =>
    /\ shouldUseProxy <=> (NonEmpty(proxyStringOrUrl) /\ ~RefExcluded)
    /\ (NonEmpty(proxyStringOrUrl) /\ env.NO_PROXY = Str(<<".", "b">>)) =>
         /\ hostname = <<"a", ".", "b">> => ~shouldUseProxy
         /\ hostname = <<"b">> => shouldUseProxy
    /\ (NonEmpty(proxyStringOrUrl) /\ env.NO_PROXY = Str(<<"b">>)) =>
         /\ hostname \in {<<"b">>, <<"a", ".", "b">>} => ~shouldUseProxy
         /\ hostname = <<"a", "b">> => shouldUseProxy
C3_Witness ==
  /\ Finished
  /\ hostname = <<"a", ".", "b">>
  /\ env.NO_PROXY = Str(<<" ", ".", "B">>)
  /\ NonEmpty(proxyStringOrUrl)
  /\ ~shouldUseProxy /\ IsDirect

\* C4: the servername of the options is attached to the handle iff it is set
\* and the final decision is direct, also when a candidate was found and
\* excluded by NO_PROXY; a proxied handle never carries it.
C4_ServernameOnlyWhenDirect ==
  Finished =>
    /\ agent.servername.def <=> (NonEmpty(options.servername) /\ ~shouldUseProxy)
    /\ agent.servername.def => agent.servername = options.servername
    /\ IsProxied => ~agent.servername.def
    /\ (NonEmpty(options.servername) /\ IsDirect) => agent.servername = options.servername
C4_Witness ==
  /\ Finished
  /\ NonEmpty(options.servername)
  /\ NonEmpty(proxyStringOrUrl)
  /\ ~shouldUseProxy /\ IsDirect
  /\ agent.servername = options.servername

\* C7: the handle matches the decision: proxied through exactly the selected
\* proxy URL when useProxy is true, whatever the scheme; otherwise an https
\* handle for an https target and an http handle for every other scheme; the
\* verification flag is the negation of skipSslCertificateValidation.
C7_HandleMatchesDecision ==
  Finished =>
    /\ shouldUseProxy => IsProxied /\ agent.proxy = proxyStringOrUrl /\ NonEmpty(agent.proxy)
    /\ ~shouldUseProxy =>
         /\ ~agent.proxy.def
         /\ agent.kind = IF targetUrl \in HttpsTargets THEN "https.Agent" ELSE "http.Agent"
    /\ agent.rejectUnauthorized <=> ~(options.skipSslCertificateValidation = Bool(TRUE))
C7_Witness ==
  /\ Finished
  /\ targetUrl \in HttpsTargets
  /\ IsProxied
  /\ options.skipSslCertificateValidation = Bool(TRUE)
  /\ ~agent.rejectUnauthorized

\* C8: a malformed target makes the call throw the invalid-URL error and
\* return no handle in every configuration; a well-formed target never
\* throws, and the finished call has returned a handle.
C8_MalformedTargetThrows ==
  /\ targetUrl \in MalformedTargets =>
       /\ pc \in {"select", "parse", "threw"}
       /\ agent = NoAgent
       /\ pc = "threw" <=> error = "TypeError: Invalid URL"
  /\ targetUrl \notin MalformedTargets =>
       /\ pc # "threw" /\ error = "none"
       /\ Finished => IsProxied \/ IsDirect
C8_Witness ==
  /\ pc = "threw"
  /\ targetUrl = M4
  /\ explicitProxyConfig.type = "object"
  /\ ~explicitProxyConfig.port.def
  /\ error = "TypeError: Invalid URL"

IncompleteDescriptor ==
  /\ explicitProxyConfig.type = "object"
  /\ ~explicitProxyConfig.host.def \/ ~explicitProxyConfig.port.def

\* C5: a descriptor that is missing port or host yields no explicit proxy and
\* resolution falls through to the environment: the environment's proxy for
\* the target's scheme is used unless NO_PROXY excludes the target, a direct
\* handle is returned only if the environment has none, and nothing is thrown.
C5_IncompleteDescriptorFallsThrough ==
  IncompleteDescriptor =>
    /\ targetUrl \notin MalformedTargets => pc # "threw"
    /\ Finished =>
         IF NonEmpty(RefEnvCandidate) /\ ~RefExcluded
           THEN IsProxied /\ agent.proxy = RefEnvCandidate
           ELSE IsDirect

\* the fields of the proxy URL as the design gives them
RefText(x) == IF x.def THEN x.v ELSE <<>>
RefAuthSegment ==
  IF explicitProxyConfig.auth.def
    THEN RefText(explicitProxyConfig.auth.username) \o <<":">>
         \o RefText(explicitProxyConfig.auth.password) \o <<"@">>
    ELSE <<>>
RefProtocol ==
  IF NonEmpty(explicitProxyConfig.protocol)
    THEN explicitProxyConfig.protocol.v
    ELSE IF targetUrl \in HttpsTargets THEN s_https ELSE s_http
RefDescriptorUrl ==
  RefProtocol \o <<":", "/", "/">> \o RefAuthSegment
    \o explicitProxyConfig.host.v \o <<":">> \o PortDigits

\* C6: for a descriptor with host and port the proxy URL is
\* <protocol>://<authSegment><host>:<port>: protocol is the descriptor's, else
\* https for an https target and http otherwise; authSegment is
\* <username>:<password>@ when auth is present, a missing username or password
\* contributing the empty string, and empty when auth is absent.
C6_DescriptorUrlFormat ==
  (explicitProxyConfig.type = "object" /\ ValidExplicit /\ Selected) =>
    proxyStringOrUrl = Str(RefDescriptorUrl)

\* C9: an empty entry of the NO_PROXY list matches no hostname: useProxy is
\* what the non-empty entries alone decide, also for a hostname written with
\* a trailing dot.
C9_EmptyEntryMatchesNothing ==
  Decided =>
    (shouldUseProxy <=> (NonEmpty(proxyStringOrUrl) /\ ~RefExcludedByNonEmptyEntry))

EmptyHttpScenario ==
  /\ NoExplicitGiven
  /\ targetUrl \in HttpTargets
  /\ env.HTTP_PROXY = Str(<<>>)
  /\ NonEmpty(env.HTTPS_PROXY)
\* every proxy variable that is set to the empty string, unset
Blank(x) == IF NonEmpty(x) THEN x ELSE Undefined
BlankedEnv ==
  [env EXCEPT !.HTTP_PROXY = Blank(@), !.http_proxy = Blank(@),
              !.HTTPS_PROXY = Blank(@), !.https_proxy = Blank(@)]

\* C10 as stated: a proxy variable set to the empty string counts as set; for
\* an http target with no explicit configuration, HTTP_PROXY empty and
\* HTTPS_PROXY a proxy URL, the candidate is the empty HTTP value, without
\* fallback, and the handle is not proxied through the HTTPS proxy value.
C10_EmptyStringCountsAsSet ==
  (EmptyHttpScenario /\ Selected) =>
    /\ proxyStringOrUrl = Str(<<>>)
    /\ Finished => ~(IsProxied /\ agent.proxy = env.HTTPS_PROXY)

\* C10 amended: a proxy variable that is unset or set to the empty string
\* counts as absent: the handle is the one the same call returns with the
\* empty variables unset, and for an http target with no explicit
\* configuration, HTTP_PROXY empty, http_proxy unset or empty and HTTPS_PROXY
\* a proxy URL, the candidate is the HTTPS proxy value and the handle is
\* proxied through it unless NO_PROXY excludes the target.
C10_EmptyStringCountsAsAbsent ==
  /\ (EmptyHttpScenario /\ ~NonEmpty(env.http_proxy) /\ Selected) =>
       /\ proxyStringOrUrl = env.HTTPS_PROXY
       /\ Finished => ((IsProxied /\ agent.proxy = env.HTTPS_PROXY) <=> ~RefExcluded)
  /\ (NoExplicitGiven /\ Selected) =>
       (Truthy(proxyStringOrUrl) => proxyStringOrUrl \in EnvProxyValues)
  /\ (NoExplicitGiven /\ Finished) =>
       agent = createN8nProxyAgent(targetUrl, options, explicitProxyConfig, BlankedEnv)
C10_Witness ==
  /\ Finished
  /\ EmptyHttpScenario
  /\ ~env.http_proxy.def
  /\ IsProxied /\ agent.proxy = env.HTTPS_PROXY

====
